---- MODULE Spec2Model ----
(***************************************************************************)
(* TemporalBuffer (temporal/main.py): a deque(maxlen = temporal_depth) of  *)
(* state records coupled with a LimitedDict(temporal_depth) that maps an   *)
(* identifier to a state record, plus the cursor field current_index.      *)
(*                                                                         *)
(* A state record is an opaque object compared by reference: it is         *)
(* modelled as a positive number, its reference; None is the reference 0.  *)
(* Positions of Python sequences are 0-based and are translated to the     *)
(* 1-based positions of TLA+ sequences in PyGet.                           *)
(***************************************************************************)
EXTENDS Integers, Sequences, FiniteSets

\* Largest temporal_depth the buffer is constructed with.
MaxDepth == 3
\* Largest number of add/update calls of one run.
MaxAdds == 6
\* Largest number of add, update, item assignment and item deletion calls of
\* a run that assigns or deletes items, or whose add calls run in threads.
MaxCalls == 4

\* The identifiers (temporal ids) callers use, in the order in which a run
\* first uses them.
IdNames == <<"id1", "id2", "id3", "id4", "id5">>

Ids == {IdNames[i] : i \in 1..Len(IdNames)}

\* Python's None: the reference no state record has.
None == 0

VARIABLES
    maxlen,         \* temporal_depth: buffer.maxlen and id_index.limit
    buffer,         \* the deque: state records, oldest first
    id_index,       \* the LimitedDict: <<key, value>> items in insertion order
    current_index,  \* the cursor field
    hist,           \* history: the add calls made so far, [id, state] each
    ret,            \* the latest call: [op, arg, exc, val]
    edits,          \* history: the number of item assignments and deletions
    calls           \* the add calls in progress, one thread each

vars == <<maxlen, buffer, id_index, current_index, hist, ret, edits, calls>>

state_vars == <<maxlen, buffer, id_index, current_index>>

----------------------------------------------------------------------------
(* Python sequences *)

Min(a, b) == IF a < b THEN a ELSE b

Max(a, b) == IF a > b THEN a ELSE b

Abs(i) == IF i < 0 THEN -i ELSE i

\* seq[i] of a Python sequence: a negative i counts from the end.
PyInRange(s, i) == -Len(s) <= i /\ i < Len(s)

PyGet(s, i) == IF i < 0 THEN s[Len(s) + i + 1] ELSE s[i + 1]

\* seq[start:] of a Python list: start is clamped into 0..len.
PySliceFrom(s, start) ==
    LET from == IF start < 0 THEN Max(Len(s) + start, 0) ELSE Min(start, Len(s))
    IN  SubSeq(s, from + 1, Len(s))

----------------------------------------------------------------------------
(* collections.deque(maxlen = m) *)

\* Mutant: the deque is built without maxlen and never drops an item.
DequeAppend_Unbounded(b, m, x) == Append(b, x)

\* deque.append: a full deque drops its leftmost item.
DequeAppend(b, m, x) ==
    IF Len(b) = m THEN Append(Tail(b), x) ELSE Append(b, x)

----------------------------------------------------------------------------
(* temporal.util.LimitedDict: an insertion-ordered mapping of bounded size *)

DictKeys(d) == [i \in 1..Len(d) |-> d[i][1]]

DictHas(d, k) == \E i \in 1..Len(d) : d[i][1] = k

DictPos(d, k) == CHOOSE i \in 1..Len(d) : d[i][1] = k

\* d.get(k, default)
DictGet(d, k, default) == IF DictHas(d, k) THEN d[DictPos(d, k)][2] ELSE default

\* d[k] = v: an existing key keeps its place; a new key goes last, and takes
\* the place of the oldest-inserted key when the dict is full.
LimitedDictSet(d, limit, k, v) ==
    IF DictHas(d, k) THEN [d EXCEPT ![DictPos(d, k)] = <<k, v>>]
    ELSE IF Len(d) >= limit THEN Append(Tail(d), <<k, v>>)
    ELSE Append(d, <<k, v>>)

\* del d[k], for a key the dict holds
DictDel(d, k) ==
    LET p == DictPos(d, k)
    IN  SubSeq(d, 1, p - 1) \o SubSeq(d, p + 1, Len(d))

----------------------------------------------------------------------------
(* TemporalBuffer *)

Result(op, arg, exc, val) == [op |-> op, arg |-> arg, exc |-> exc, val |-> val]

Returned(op, arg, val) == Result(op, arg, "none", val)

Raised(op, arg, exc) == Result(op, arg, exc, None)

\* The threads that call add at the same time.
Threads == {"t1", "t2"}

\* A thread that is not inside add.  overlapped records, for the run so
\* far, that the thread entered add while another thread was inside it.
Idle == [pc |-> "idle", id |-> "", state |-> None, overlapped |-> FALSE]

\* TemporalBuffer(temporal_depth)
Init ==
    /\ maxlen \in 1..MaxDepth
    /\ buffer = <<>>
    /\ id_index = <<>>
    /\ current_index = -1
    /\ hist = <<>>
    /\ ret = Returned("init", None, None)
    /\ edits = 0
    /\ calls = [t \in Threads |-> Idle]

\* Mutant: the cursor is incremented and never wrapped.
NextIndex_NoWrap(b, m, ci) == ci + 1

\* The cursor after an add.
NextIndex(b, m, ci) == IF Len(b) = m THEN (ci + 1) % m ELSE ci + 1

\* deque.appendleft, which the mutant below calls: a full deque drops its
\* rightmost item.
DequeAppendLeft(b, m, x) ==
    IF Len(b) = m THEN <<x>> \o SubSeq(b, 1, m - 1) ELSE <<x>> \o b

\* Mutant: add puts the state at the left end of the deque.
add_AppendLeft(id, state) ==
    /\ Len(hist) < MaxAdds
    /\ id_index' = LimitedDictSet(id_index, maxlen, id, state)
    /\ current_index' = NextIndex(buffer, maxlen, current_index)
    /\ buffer' = DequeAppendLeft(buffer, maxlen, state)
    /\ hist' = Append(hist, [id |-> id, state |-> state])
    /\ ret' = Returned("add", <<id, state>>, None)
    /\ UNCHANGED <<maxlen, edits, calls>>

\* Mutant: add leaves the identifier index alone once the deque is full.
add_IndexUntilFull(id, state) ==
    /\ Len(hist) < MaxAdds
    /\ id_index' = IF Len(buffer) = maxlen THEN id_index
                   ELSE LimitedDictSet(id_index, maxlen, id, state)
    /\ current_index' = NextIndex(buffer, maxlen, current_index)
    /\ buffer' = DequeAppend(buffer, maxlen, state)
    /\ hist' = Append(hist, [id |-> id, state |-> state])
    /\ ret' = Returned("add", <<id, state>>, None)
    /\ UNCHANGED <<maxlen, edits, calls>>

\* add(id, state)
add(id, state) ==
    /\ Len(hist) < MaxAdds
    /\ id_index' = LimitedDictSet(id_index, maxlen, id, state)
    /\ current_index' = NextIndex(buffer, maxlen, current_index)
    /\ buffer' = DequeAppend(buffer, maxlen, state)
    /\ hist' = Append(hist, [id |-> id, state |-> state])
    /\ ret' = Returned("add", <<id, state>>, None)
    /\ UNCHANGED <<maxlen, edits, calls>>

\* update(object_state): the identifier is object_state.temporal_id.
update(object_state) == add(object_state.temporal_id, object_state.ref)

\* Every call passes a state object of its own: the object's reference is
\* the number of the call.
NewState == Len(hist) + 1

\* The identifiers passed so far.
UsedIds == {hist[i].id : i \in 1..Len(hist)}

\* The identifiers add is called with.  The program only compares
\* identifiers for equality, so a run is determined, up to the names, by
\* which earlier identifier (if any) each call repeats: a call passes any
\* identifier passed before, or the first name not passed yet.
IdArgs ==
    UsedIds \cup (IF Cardinality(UsedIds) < Len(IdNames)
                  THEN {IdNames[Cardinality(UsedIds) + 1]} ELSE {})

\* The objects update is called with: a new object carrying an identifier.
ObjectArgs == [temporal_id : IdArgs, ref : {NewState}]

\* Mutant: the length is read off the cursor.
len_FromCursor ==
    /\ ret' = Returned("len", None, current_index + 1)
    /\ UNCHANGED <<state_vars, hist, edits, calls>>

\* __len__()
len ==
    /\ ret' = Returned("len", None, Len(buffer))
    /\ UNCHANGED <<state_vars, hist, edits, calls>>

\* __iter__(), run to its end
iter ==
    /\ ret' = Returned("iter", None, buffer)
    /\ UNCHANGED <<state_vars, hist, edits, calls>>

\* _get_by_temporal_id(temporal_id)
get_by_temporal_id(temporal_id) == DictGet(id_index, temporal_id, None)

\* Mutant: the distance is counted from the oldest record.
GetItemInt_Forward(index) ==
    LET i == IF index < 0 THEN Abs(index) ELSE index
    IN  IF i < 0 \/ i >= Len(buffer)
        THEN Raised("getitem[int]", index, "IndexError")
        ELSE Returned("getitem[int]", index, PyGet(buffer, i))

\* Mutant: a negative index is not replaced by its absolute value, and is
\* refused by the range check.
GetItemInt_NoAbs(index) ==
    IF index < 0 \/ index >= Len(buffer)
    THEN Raised("getitem[int]", index, "IndexError")
    ELSE Returned("getitem[int]", index, PyGet(buffer, -1 - index))

\* Mutant: a negative index is handed to the deque as it is, which raises
\* IndexError itself when the position is outside it.
GetItemInt_NativeNegative(index) ==
    IF index >= Len(buffer) \/ ~PyInRange(buffer, -1 - index)
    THEN Raised("getitem[int]", index, "IndexError")
    ELSE Returned("getitem[int]", index, PyGet(buffer, -1 - index))

\* What __getitem__(index) does for an int index.
GetItemInt(index) ==
    LET i == IF index < 0 THEN Abs(index) ELSE index
    IN  IF i < 0 \/ i >= Len(buffer)
        THEN Raised("getitem[int]", index, "IndexError")
        ELSE Returned("getitem[int]", index, PyGet(buffer, -1 - i))

\* __getitem__(index), index an int
getitem_int(index) ==
    /\ ret' = GetItemInt(index)
    /\ UNCHANGED <<state_vars, hist, edits, calls>>

\* Mutant: the lookup subscripts the index, which raises KeyError for an
\* absent key.
getitem_str_Subscript(index) ==
    /\ ret' = IF DictHas(id_index, index)
              THEN Returned("getitem[str]", index, get_by_temporal_id(index))
              ELSE Raised("getitem[str]", index, "KeyError")
    /\ UNCHANGED <<state_vars, hist, edits, calls>>

\* __getitem__(index), index a str
getitem_str(index) ==
    /\ ret' = Returned("getitem[str]", index, get_by_temporal_id(index))
    /\ UNCHANGED <<state_vars, hist, edits, calls>>

\* get_state_at_index(index)
get_state_at_index(index) == getitem_int(index)

\* get_last_n_states(n)
get_last_n_states(n) ==
    /\ ret' = Returned("get_last_n_states", n, PySliceFrom(buffer, -n))
    /\ UNCHANGED <<state_vars, hist, edits, calls>>

\* Mutant: current answers None for an empty buffer.
current_OrNone ==
    /\ ret' = IF PyInRange(buffer, -1)
              THEN Returned("current", None, PyGet(buffer, -1))
              ELSE Returned("current", None, None)
    /\ UNCHANGED <<state_vars, hist, edits, calls>>

\* the property current
current ==
    /\ ret' = IF PyInRange(buffer, -1)
              THEN Returned("current", None, PyGet(buffer, -1))
              ELSE Raised("current", None, "IndexError")
    /\ UNCHANGED <<state_vars, hist, edits, calls>>

\* Keys of __getitem__ that are neither int nor str, by their type.
KeyArgs ==
    { [type |-> "slice", repr |-> "0:1"],
      [type |-> "slice", repr |-> "::2"],
      [type |-> "float", repr |-> "1.5"],
      [type |-> "NoneType", repr |-> "None"] }

\* Mutant: the slice branch returns the states, as its disabled code would.
GetItemKey_Sliced(key) ==
    IF key.type = "slice"
    THEN Returned("getitem[key]", key, buffer)
    ELSE Raised("getitem[key]", key, "TypeError")

\* What __getitem__(index) does for an index that is no int: the slice
\* branch, and the final else (the str branch is getitem_str).
GetItemKey(key) ==
    IF key.type = "slice"
    THEN Raised("getitem[key]", key, "NotImplementedError")
    ELSE Raised("getitem[key]", key, "TypeError")

\* __getitem__(index), index a slice or of any further type
getitem_key(key) ==
    /\ ret' = GetItemKey(key)
    /\ UNCHANGED <<state_vars, hist, edits, calls>>

\* Mutant: move_forward steps the cursor and returns the state there.
move_forward_Implemented ==
    /\ buffer # <<>>
    /\ current_index' = (current_index + 1) % Len(buffer)
    /\ ret' = Returned("move_forward", None, PyGet(buffer, current_index'))
    /\ UNCHANGED <<maxlen, buffer, id_index, hist, edits, calls>>

\* move_forward()
move_forward ==
    /\ ret' = Raised("move_forward", None, "NotImplementedError")
    /\ UNCHANGED <<state_vars, hist, edits, calls>>

\* move_backward()
move_backward ==
    /\ ret' = Raised("move_backward", None, "NotImplementedError")
    /\ UNCHANGED <<state_vars, hist, edits, calls>>

\* Mutant: the call form reads like the indexed read.
Call_ViaGetItem(index) ==
    IF Len(buffer) = 0
    THEN Raised("call", index, "IndexError")
    ELSE Result("call", index, GetItemInt(index).exc, GetItemInt(index).val)

\* What __call__(index) does for an int index: the deque raises IndexError
\* for a position outside it.
Call(index) ==
    IF Len(buffer) = 0
    THEN Raised("call", index, "IndexError")
    ELSE IF PyInRange(buffer, index)
         THEN Returned("call", index, PyGet(buffer, index))
         ELSE Raised("call", index, "IndexError")

\* __call__(index); index is 0 when the caller passes none
call(index) ==
    /\ ret' = Call(index)
    /\ UNCHANGED <<state_vars, hist, edits, calls>>

\* __contains__(key)
contains(key) ==
    /\ ret' = Returned("contains", key, DictHas(id_index, key))
    /\ UNCHANGED <<state_vars, hist, edits, calls>>

\* Mutant: the index is a plain dict, which grows with every new key.
setitem_Unbounded(key, value) ==
    /\ id_index' = IF DictHas(id_index, key)
                   THEN [id_index EXCEPT ![DictPos(id_index, key)] = <<key, value>>]
                   ELSE Append(id_index, <<key, value>>)
    /\ edits' = edits + 1
    /\ ret' = Returned("setitem", <<key, value>>, None)
    /\ UNCHANGED <<maxlen, buffer, current_index, hist, calls>>

\* __setitem__(key, value)
setitem(key, value) ==
    /\ id_index' = LimitedDictSet(id_index, maxlen, key, value)
    /\ edits' = edits + 1
    /\ ret' = Returned("setitem", <<key, value>>, None)
    /\ UNCHANGED <<maxlen, buffer, current_index, hist, calls>>

\* The deque without the first occurrence of x (deque.remove).
DequeRemove(b, x) ==
    IF \E j \in 1..Len(b) : b[j] = x
    THEN LET p == CHOOSE j \in 1..Len(b) :
                     b[j] = x /\ \A i \in 1..(j - 1) : b[i] # x
         IN  SubSeq(b, 1, p - 1) \o SubSeq(b, p + 1, Len(b))
    ELSE b

\* Mutant: deleting a key also removes its record from the deque.
delitem_AlsoBuffer(key) ==
    /\ IF DictHas(id_index, key)
       THEN /\ id_index' = DictDel(id_index, key)
            /\ buffer' = DequeRemove(buffer, DictGet(id_index, key, None))
            /\ ret' = Returned("delitem", key, None)
       ELSE /\ UNCHANGED <<id_index, buffer>>
            /\ ret' = Raised("delitem", key, "KeyError")
    /\ edits' = edits + 1
    /\ UNCHANGED <<maxlen, current_index, hist, calls>>

\* __delitem__(key): KeyError for a key the index does not hold
delitem(key) ==
    /\ IF DictHas(id_index, key)
       THEN /\ id_index' = DictDel(id_index, key)
            /\ ret' = Returned("delitem", key, None)
       ELSE /\ UNCHANGED id_index
            /\ ret' = Raised("delitem", key, "KeyError")
    /\ edits' = edits + 1
    /\ UNCHANGED <<maxlen, buffer, current_index, hist, calls>>

\* The integer arguments of the reads: every valid distance, and beyond.
IntArgs == -(MaxDepth + 1)..(MaxDepth + 1)

Next ==
    \/ \E id \in IdArgs : add(id, NewState)
    \/ \E object_state \in ObjectArgs : update(object_state)
    \/ len
    \/ iter
    \/ \E i \in IntArgs : getitem_int(i)
    \/ \E i \in IntArgs : get_state_at_index(i)
    \/ \E id \in Ids : getitem_str(id)
    \/ \E n \in IntArgs : get_last_n_states(n)
    \/ current
    \/ \E key \in KeyArgs : getitem_key(key)
    \/ move_forward
    \/ move_backward
    \/ \E i \in IntArgs : call(i)

Spec == Init /\ [][Next]_vars

----------------------------------------------------------------------------
(* Runs that also assign and delete items of the index *)

\* The identifiers the index holds or a call has passed.
KnownIds == UsedIds \cup {id_index[i][1] : i \in 1..Len(id_index)}

\* The first name that is not a known identifier.
NewIds ==
    {IdNames[i] : i \in {i \in 1..Len(IdNames) :
        /\ IdNames[i] \notin KnownIds
        /\ \A j \in 1..(i - 1) : IdNames[j] \in KnownIds}}

\* The identifiers the calls pass: a known one, or the first unknown name
\* (identifiers are only compared for equality).
KeyIdArgs == KnownIds \cup NewIds

\* The values item assignment stores: None, the first record ever added and
\* the latest one.
ValueArgs ==
    {None} \cup (IF hist = <<>> THEN {}
                 ELSE {hist[1].state, hist[Len(hist)].state})

\* The run may make one more mutating call.
MoreCalls == Len(hist) + edits < MaxCalls

NextItems ==
    \/ MoreCalls /\ \E id \in KeyIdArgs : add(id, NewState)
    \/ MoreCalls /\ \E id \in KeyIdArgs :
                        update([temporal_id |-> id, ref |-> NewState])
    \/ MoreCalls /\ \E key \in KeyIdArgs, value \in ValueArgs : setitem(key, value)
    \/ MoreCalls /\ \E key \in KeyIdArgs : delitem(key)
    \/ \E id \in KeyIdArgs : getitem_str(id)
    \/ \E id \in KeyIdArgs : contains(id)
    \/ \E i \in IntArgs : getitem_int(i)
    \/ len
    \/ move_forward
    \/ move_backward

SpecItems == Init /\ [][NextItems]_vars

----------------------------------------------------------------------------
(* add called from two threads without a lock: its three statements are the
   steps, and the interpreter may switch threads between any two of them *)

\* Some other thread is inside add.
OthersInside(t) == \E u \in Threads \ {t} : calls[u].pc # "idle"

\* add, line 70: self.id_index[id] = state
add_index(t, id, state) ==
    /\ calls[t].pc = "idle"
    /\ Len(hist) < MaxCalls
    /\ id_index' = LimitedDictSet(id_index, maxlen, id, state)
    /\ hist' = Append(hist, [id |-> id, state |-> state])
    /\ calls' = [calls EXCEPT ![t] =
                    [pc |-> "cursor", id |-> id, state |-> state,
                     overlapped |-> calls[t].overlapped \/ OthersInside(t)]]
    /\ UNCHANGED <<maxlen, buffer, current_index, ret, edits>>

\* add, lines 71-74: the update of current_index
add_cursor(t) ==
    /\ calls[t].pc = "cursor"
    /\ current_index' = NextIndex(buffer, maxlen, current_index)
    /\ calls' = [calls EXCEPT ![t].pc = "append"]
    /\ UNCHANGED <<maxlen, buffer, id_index, hist, ret, edits>>

\* Mutant: the last statement puts the state at the left end of the deque.
add_append_Left(t) ==
    /\ calls[t].pc = "append"
    /\ buffer' = DequeAppendLeft(buffer, maxlen, calls[t].state)
    /\ ret' = Returned("add", <<calls[t].id, calls[t].state>>, None)
    /\ calls' = [calls EXCEPT ![t].pc = "idle"]
    /\ UNCHANGED <<maxlen, id_index, current_index, hist, edits>>

\* add, line 75: self.buffer.append(state), and the return
add_append(t) ==
    /\ calls[t].pc = "append"
    /\ buffer' = DequeAppend(buffer, maxlen, calls[t].state)
    /\ ret' = Returned("add", <<calls[t].id, calls[t].state>>, None)
    /\ calls' = [calls EXCEPT ![t].pc = "idle"]
    /\ UNCHANGED <<maxlen, id_index, current_index, hist, edits>>

NextThreads ==
    \/ \E t \in Threads, id \in IdArgs : add_index(t, id, NewState)
    \/ \E t \in Threads : add_cursor(t)
    \/ \E t \in Threads : add_append(t)

SpecThreads == Init /\ [][NextThreads]_vars

----------------------------------------------------------------------------
(* The add calls of a run, as the history records them *)

\* The number of add/update calls made so far.
Adds == Len(hist)

\* The last min(Adds, maxlen) add calls, oldest first.
Retained == SubSeq(hist, Adds - Min(Adds, maxlen) + 1, Adds)

RetainedStates == [i \in 1..Len(Retained) |-> Retained[i].state]

RetainedItems == [i \in 1..Len(Retained) |-> <<Retained[i].id, Retained[i].state>>]

\* No identifier was passed to two add calls.
DistinctIds == \A i, j \in 1..Adds : hist[i].id = hist[j].id => i = j

InBuffer(state) == \E j \in 1..Len(buffer) : buffer[j] = state

\* The latest add evicted a record from the full sequence.
Evicted == Adds > maxlen

----------------------------------------------------------------------------
(* C1..C10 *)

\* C1: after any sequence of add calls (the same id may be added more than
\* once), every identifier present in the key index maps to a record that is
\* currently held in the sequence.
C1_NoStaleEntries ==
    \A i \in 1..Len(id_index) : InBuffer(id_index[i][2])

\* C2: when the ids of the add calls are pairwise distinct, the keys of the
\* index in insertion order are the ids of the records held in the sequence,
\* position by position from oldest to newest, and each key maps to the very
\* record at that position (the last maxlen adds, in order).
C2_Lockstep ==
    DistinctIds =>
        /\ DictKeys(id_index) = [i \in 1..Len(Retained) |-> Retained[i].id]
        /\ id_index = RetainedItems
        /\ Len(id_index) = Len(buffer)
        /\ \A i \in 1..Len(buffer) : id_index[i][2] = buffer[i]

C2_Witness ==
    /\ DistinctIds
    /\ Evicted
    /\ maxlen >= 2
    /\ ret.op = "add"

\* C3: after k add calls the buffer holds exactly the records of the last
\* min(k, maxlen) adds, iteration yields them oldest to newest, and an add on
\* a full buffer drops exactly one record, the earliest-added one retained.
C3_HoldsLastAdds ==
    /\ buffer = RetainedStates
    /\ ret.op = "iter" => ret.val = RetainedStates

C3_FifoStep ==
    (Len(hist') = Len(hist) + 1 /\ Len(buffer) = maxlen) =>
        buffer' = Append(Tail(buffer), hist'[Len(hist')].state)

C3_RetainsLastAdds == [](C3_HoldsLastAdds) /\ [][C3_FifoStep]_vars

C3_Witness ==
    /\ Evicted
    /\ maxlen >= 2
    /\ ret.op = "iter"
    /\ ret.val = buffer

\* C4: after k add calls the length query returns min(k, maxlen): k while
\* k <= maxlen, where no record has been evicted, and maxlen afterwards; the
\* length never exceeds maxlen.
C4_Length ==
    /\ Len(buffer) <= maxlen
    /\ ret.op = "len" => ret.val = Min(Adds, maxlen)
    /\ Adds <= maxlen =>
           /\ Len(buffer) = Adds
           /\ \A i \in 1..Adds : buffer[i] = hist[i].state
           /\ \A i \in 1..Adds : DictHas(id_index, hist[i].id)

C4_Witness ==
    /\ ret.op = "len"
    /\ Evicted
    /\ ret.val = maxlen
    /\ maxlen >= 2

\* C5: whenever an add on a full buffer has evicted the oldest record, a
\* string lookup of the identifier that record was added under returns None.
C5_EvictedIdAbsent ==
    (Evicted /\ ret.op = "getitem[str]" /\ ret.arg = hist[Adds - maxlen].id) =>
        ret.val = None

\* C6: for every record retained in the sequence, a string lookup of the
\* identifier it was added under returns the same record as the positional
\* lookup that addresses that insertion.
C6_RetainedReachable ==
    \A d \in 0..(Len(buffer) - 1) :
        get_by_temporal_id(hist[Adds - d].id) = GetItemInt(d).val

\* C7: on a non-empty buffer, for 0 <= d < length, buffer[d] returns the
\* record added d adds before the most recent add; buffer[0] and current
\* return the most recently added record, also after an overflow.
C7_DistanceFromLatest ==
    /\ (ret.op = "getitem[int]" /\ 0 <= ret.arg /\ ret.arg < Len(buffer)) =>
           /\ ret.exc = "none"
           /\ ret.val = hist[Adds - ret.arg].state
    /\ (ret.op = "current" /\ Adds > 0) =>
           /\ ret.exc = "none"
           /\ ret.val = hist[Adds].state
           /\ ret.val = GetItemInt(0).val

C7_Witness ==
    /\ ret.op = "getitem[int]"
    /\ ret.arg >= 1
    /\ ret.exc = "none"
    /\ Evicted
    /\ ret.val = hist[Adds - ret.arg].state

\* C8: for every d >= 1, buffer[d] and buffer[-d] have the same outcome: the
\* identical record when d < length, IndexError when d >= length.
C8_AbsCollapse ==
    /\ \A d \in 1..(MaxDepth + 1) :
           /\ GetItemInt(d).exc = GetItemInt(-d).exc
           /\ GetItemInt(d).val = GetItemInt(-d).val
           /\ d < Len(buffer) => GetItemInt(-d).exc = "none"
           /\ d >= Len(buffer) => GetItemInt(-d).exc = "IndexError"
    /\ (ret.op = "getitem[int]" /\ ret.arg < 0) =>
           /\ ret.exc = GetItemInt(-ret.arg).exc
           /\ ret.val = GetItemInt(-ret.arg).val

C8_Witness ==
    /\ ret.op = "getitem[int]"
    /\ ret.arg < 0
    /\ ret.exc = "none"
    /\ Len(buffer) >= 3
    /\ ret.val = buffer[Len(buffer) + ret.arg]
    /\ ret.val # buffer[Len(buffer)]

\* C9: buffer[i] fails with IndexError exactly when |i| >= length, so every
\* integer read of an empty buffer fails; the failed read leaves the
\* sequence, the key index and current_index unchanged.
C9_RaisesExactly ==
    ret.op = "getitem[int]" =>
        /\ ret.exc \in {"none", "IndexError"}
        /\ ret.exc = "IndexError" <=> Abs(ret.arg) >= Len(buffer)

C9_FailedReadStep ==
    (ret'.op = "getitem[int]" /\ ret'.exc = "IndexError") =>
        UNCHANGED <<buffer, id_index, current_index>>

C9_IndexError == [](C9_RaisesExactly) /\ [][C9_FailedReadStep]_vars

C9_Witness ==
    /\ ret.op = "getitem[int]"
    /\ ret.exc = "IndexError"
    /\ Len(buffer) >= 1
    /\ Abs(ret.arg) = Len(buffer)

\* C10: for every n >= 0, n = 0 included, get_last_n_states(n) returns
\* exactly the min(n, length) most recently added records, oldest first.
C10_LastN ==
    (ret.op = "get_last_n_states" /\ ret.arg >= 0) =>
        LET m == Min(ret.arg, Len(buffer))
        IN  ret.val = SubSeq(RetainedStates, Len(buffer) - m + 1, Len(buffer))

\* C11: current fails with an error, and returns nothing, exactly while the
\* buffer holds no records, that is before the first add; it never fails
\* once an add has completed.
C11_CurrentFailsIffEmpty ==
    ret.op = "current" =>
        /\ ret.exc \in {"none", "IndexError"}
        /\ ret.exc = "IndexError" <=> Adds = 0
        /\ ret.exc = "IndexError" <=> buffer = <<>>

C11_Witness ==
    /\ ret.op = "current"
    /\ ret.exc = "IndexError"
    /\ buffer = <<>>

\* C12: an indexed read whose key is neither an int nor a str never returns
\* a record, in an empty, partly filled or full buffer: a slice fails with
\* NotImplementedError, any other key with TypeError, and the buffer is
\* unchanged.
C12_Raises ==
    ret.op = "getitem[key]" =>
        /\ ret.exc # "none"
        /\ ret.arg.type = "slice" => ret.exc = "NotImplementedError"
        /\ ret.arg.type # "slice" => ret.exc = "TypeError"

C12_Step ==
    ret'.op = "getitem[key]" => UNCHANGED <<buffer, id_index, current_index>>

C14_Raises ==
    ret.op \in {"move_forward", "move_backward"} =>
        ret.exc = "NotImplementedError"

C14_Step ==
    ret'.op \in {"move_forward", "move_backward"} =>
        UNCHANGED <<buffer, id_index, current_index>>

C20_CallFromOldest ==
    ret.op = "call" =>
        /\ buffer = <<>> => ret.exc = "IndexError"
        /\ (0 <= ret.arg /\ ret.arg < Len(buffer)) =>
               /\ ret.exc = "none"
               /\ ret.val = GetItemInt(Len(buffer) - 1 - ret.arg).val
               /\ ret.val = RetainedStates[ret.arg + 1]
        /\ (ret.arg = 0 /\ Len(buffer) >= 2) =>
               /\ ret.val = RetainedStates[1]
               /\ ret.val # GetItemInt(0).val

C20_Witness ==
    /\ ret.op = "call"
    /\ ret.arg = 0
    /\ ret.exc = "none"
    /\ Len(buffer) >= 2
    /\ Evicted
    /\ ret.val = buffer[1]

----------------------------------------------------------------------------
(* C13, C15..C18: runs that also assign and delete items (SpecItems) *)

\* The items of the index stored under key.
Stored(key) == {id_index[i][2] : i \in {i \in 1..Len(id_index) : id_index[i][1] = key}}

\* C13: a string read never fails: buffer[id] returns the record stored in
\* the index under id when id is present and None when it is absent (never
\* added, evicted or deleted), and contains(id) is true exactly when id is
\* present in the index.
C13_StringRead ==
    /\ ret.op = "getitem[str]" =>
           /\ ret.exc = "none"
           /\ Stored(ret.arg) # {} => ret.val \in Stored(ret.arg)
           /\ Stored(ret.arg) = {} => ret.val = None
           /\ (ret.arg \notin UsedIds /\ edits = 0) => ret.val = None
    /\ ret.op = "contains" =>
           /\ ret.exc = "none"
           /\ ret.val <=> Stored(ret.arg) # {}

\* A lookup of an identifier that was added and then deleted.
C13_Witness ==
    /\ ret.op = "getitem[str]"
    /\ ret.arg \in UsedIds
    /\ Adds = 1
    /\ edits = 1
    /\ maxlen >= 2
    /\ ret.val = None
    /\ id_index = <<>>

\* C15: item assignment and item deletion change only the key index: the
\* sequence, the length, every positional read and current_index are the
\* same before and after the call, whether or not the call succeeds.
C15_Step ==
    ret'.op \in {"setitem", "delitem"} =>
        /\ buffer' = buffer
        /\ Len(buffer') = Len(buffer)
        /\ current_index' = current_index
        /\ \A i \in IntArgs : GetItemInt(i)' = GetItemInt(i)

C15_IndexOnly == [][C15_Step]_vars

\* A deletion that succeeded and left the record in the sequence.
C15_Witness ==
    /\ ret.op = "delitem"
    /\ ret.exc = "none"
    /\ edits = 1
    /\ Len(buffer) = Adds
    /\ Len(id_index) < Len(buffer)
    /\ DistinctIds

\* C16: under any interleaving of add, update, item assignment and item
\* deletion the index holds at most maxlen entries and the sequence at most
\* maxlen records; inserting a new key into a full index evicts exactly one
\* key, the oldest-inserted one, and reads do not change the order.
C16_Bounded ==
    /\ Len(id_index) <= maxlen
    /\ Len(buffer) <= maxlen
    /\ Len(id_index) + Len(buffer) <= 2 * maxlen

C16_Step ==
    /\ (/\ ret'.op \in {"add", "setitem"}
        /\ Len(id_index) = maxlen
        /\ ~DictHas(id_index, ret'.arg[1])) =>
           DictKeys(id_index') = Append(Tail(DictKeys(id_index)), ret'.arg[1])
    /\ ret'.op \in {"getitem[str]", "contains", "getitem[int]", "len"} =>
           id_index' = id_index

C16_NoGrowth == [](C16_Bounded) /\ [][C16_Step]_vars

\* An item assignment of a new key evicted the oldest key of the full index.
C16_Witness ==
    /\ ret.op = "setitem"
    /\ Adds = maxlen
    /\ edits = 1
    /\ DistinctIds
    /\ maxlen >= 2
    /\ Len(id_index) = maxlen
    /\ ~DictHas(id_index, hist[1].id)
    /\ id_index[maxlen][1] = ret.arg[1]

\* C17: records leave the sequence only by eviction: the length never
\* decreases from one state to the next, and once it has reached the
\* capacity it stays equal to it.
C17_Step ==
    /\ Len(buffer') >= Len(buffer)
    /\ Len(buffer) = maxlen => Len(buffer') = maxlen

C17_LengthMonotone == [][C17_Step]_vars

\* A deletion on a buffer that has overflowed.
C17_Witness ==
    /\ ret.op = "delitem"
    /\ ret.exc = "none"
    /\ Evicted
    /\ Len(buffer) = maxlen

\* C18: current_index is -1 exactly while no add has happened; after k >= 1
\* adds it is (k - 1) mod maxlen, so it lies in -1..maxlen-1; an add changes
\* it by increment-then-wrap and no other operation changes it.
C18_Cursor ==
    /\ current_index = -1 <=> Adds = 0
    /\ Adds >= 1 => current_index = (Adds - 1) % maxlen
    /\ current_index \in -1..(maxlen - 1)

C18_Step ==
    /\ ret'.op = "add" =>
           current_index' = IF Len(buffer) = maxlen
                            THEN (current_index + 1) % maxlen
                            ELSE current_index + 1
    /\ ret'.op # "add" => current_index' = current_index

C18_CursorRule == [](C18_Cursor) /\ [][C18_Step]_vars

\* The cursor has wrapped to 0 and an item assignment followed.
C18_Witness ==
    /\ Evicted
    /\ maxlen >= 2
    /\ current_index = 0
    /\ ret.op = "setitem"

----------------------------------------------------------------------------
(* C19: add calls in threads (SpecThreads) *)

\* No thread is inside add.
AllIdle == \A t \in Threads : calls[t].pc = "idle"

\* Every add so far ran to completion before the next one started.
Serial == \A t \in Threads : ~calls[t].overlapped

\* The position of a record in the sequence (0 when it is not there).
BufferPos(state) ==
    IF InBuffer(state) THEN CHOOSE j \in 1..Len(buffer) : buffer[j] = state ELSE 0

\* Two identifiers are in one order in the index and their records in the
\* other order in the sequence.
OrderDiffers ==
    \E i, j \in 1..Len(id_index) :
        /\ i < j
        /\ InBuffer(id_index[i][2])
        /\ InBuffer(id_index[j][2])
        /\ BufferPos(id_index[i][2]) > BufferPos(id_index[j][2])

\* A record is retained in the sequence while the identifier it was added
\* under is no longer in the index.
Orphaned ==
    \E k \in 1..Adds : InBuffer(hist[k].state) /\ ~DictHas(id_index, hist[k].id)

\* C19: when add calls with distinct ids run in threads and their steps
\* interleave, the order of the ids in the index can differ from the order
\* of their records in the sequence, and a later eviction then removes an
\* identifier whose record is still retained; when every add runs to
\* completion before the next one starts, no such state is reachable.
C19_SerialLockstep ==
    (Serial /\ DistinctIds) =>
        /\ ~OrderDiffers
        /\ AllIdle =>
               /\ ~Orphaned
               /\ id_index = RetainedItems
               /\ buffer = RetainedStates

\* Interleaved adds put two ids into the index in one order and their
\* records into the sequence in the other, and an eviction removed the
\* identifier of a record the sequence still holds.
C19_Witness ==
    /\ ~Serial
    /\ DistinctIds
    /\ AllIdle
    /\ maxlen >= 2
    /\ Evicted
    /\ Orphaned
    /\ \E k, l \in 1..Adds :
           /\ k < l
           /\ InBuffer(hist[k].state)
           /\ ~DictHas(id_index, hist[k].id)
           /\ ~InBuffer(hist[l].state)
           /\ DictHas(id_index, hist[l].id)

====
